---------------------------- MODULE Spec2Model ----------------------------
(***************************************************************************)
(* A model of BrickTablePlanner: the LDraw template loader and normaliser  *)
(* (template.py), the 5x7 glyph renderer (digits.py), the frame and group  *)
(* layout (main.py, plate.py) and the build pipeline (main.py).            *)
(*                                                                         *)
(* Each part of the program has its own specification over its own         *)
(* variables; the variables of the other parts stay at their idle values.  *)
(***************************************************************************)
EXTENDS Integers, Sequences, FiniteSets, TLC

VARIABLES
    parts,      \* template.py: the list of LDrawType1 objects being normalised
    loaded,     \* the same list as load_template returned it
    once,       \* the list as the first normalize_template_inplace left it
    passes,     \* how many times normalize_template_inplace has run
    obj,        \* template.py: an LDrawType1 of a normalized template
    line,       \* what obj.to_line() returned (<<>> before the call)
    reparsed,   \* what LDrawType1.parse(line) returned (NotCalled before the call)
    src,        \* load_template: the lines of the file at path
    lineno,     \* load_template: the index of the line the loop reads next
    items,      \* load_template: the records parsed so far
    outcome,    \* load_template: "reading", then "returned" or "raised"
    center,     \* build_group_frame: <<center_stud_x, center_stud_z>>
    phase,      \* build_group_frame: which pair of sides is being laid
    edge,       \* build_group_frame: the side of the pair (the outer loop's turn)
    seg,        \* build_group_frame: the index of the next segment of the side
    cursor,     \* build_group_frame: x_start or z_start, in half studs
    frame,      \* build_group_frame: the list lines
    text,       \* digits.py: the text to render
    gap,        \* render_text_5x7: the gap between glyphs
    matrix,     \* what render_text_5x7(text, gap) returned
    digit_center, \* build_centered_digit: <<center_stud_x, center_stud_z>>
    placed,     \* what build_centered_digit returned
    digit_color, \* build_centered_digit: color
    grid_cols,  \* build_groups_grid: cols
    grid_rows,  \* build_groups_grid: rows
    grid_r,     \* build_groups_grid: the outer loop's r
    grid_c,     \* build_groups_grid: the inner loop's c
    group_index, \* build_groups_grid: group_index
    groups,     \* build_groups_grid: the build_group calls made so far
    grid_pc,    \* build_groups_grid: "loop", then "returned"
    pc,         \* main: the statement main is at
    lines,      \* main: the list lines, as the sections extended into it
    output,     \* main: the file build/plateau_digits.ldr
    error,      \* main: the exception that ended main ("none" while none has)
    template,   \* build_minifig: the list template, its part objects
    stud_target, \* build_minifig: stud_x and stud_z of the last call
    out,        \* build_minifig: what the last call returned or raised
    calls,      \* build_minifig: the number of calls made on template
    group_center, \* build_group: center_stud_x and center_stud_z
    group_row,  \* build_group: the outer loop's row
    group_col,  \* build_group: the inner loop's col
    group_calls, \* build_group: the builder calls made so far, in order
    group_pc    \* build_group: "digit", "loop", then "returned"

normVars == <<parts, loaded, once, passes>>

lineVars == <<obj, line, reparsed>>

loadVars == <<src, lineno, items, outcome>>

frameVars == <<center, phase, edge, seg, cursor, frame>>

digitVars == <<text, gap, matrix, digit_center, placed, digit_color>>

gridVars == <<grid_cols, grid_rows, grid_r, grid_c, group_index, groups, grid_pc>>

mainVars == <<pc, lines, output, error>>

figVars == <<template, stud_target, out, calls>>

groupVars == <<group_center, group_row, group_col, group_calls, group_pc>>

vars ==
    <<normVars, lineVars, loadVars, frameVars, digitVars, gridVars, mainVars, figVars,
      groupVars>>

\* What an action of one part of the program leaves alone.
notNorm ==
    <<lineVars, loadVars, frameVars, digitVars, gridVars, mainVars, figVars, groupVars>>

notLine ==
    <<normVars, loadVars, frameVars, digitVars, gridVars, mainVars, figVars, groupVars>>

notLoad ==
    <<normVars, lineVars, frameVars, digitVars, gridVars, mainVars, figVars, groupVars>>

notFrame ==
    <<normVars, lineVars, loadVars, digitVars, gridVars, mainVars, figVars, groupVars>>

notDigit ==
    <<normVars, lineVars, loadVars, frameVars, gridVars, mainVars, figVars, groupVars>>

notGrid ==
    <<normVars, lineVars, loadVars, frameVars, digitVars, mainVars, figVars, groupVars>>

notMain ==
    <<lineVars, frameVars, digitVars, figVars, groupVars>>

notGroup ==
    <<normVars, lineVars, loadVars, frameVars, digitVars, gridVars, mainVars, figVars>>

notFig ==
    <<normVars, lineVars, loadVars, frameVars, digitVars, gridVars, mainVars, groupVars>>

(***************************************************************************)
(* Arithmetic helpers.                                                     *)
(***************************************************************************)
Abs(v) == IF v < 0 THEN -v ELSE v

Sign(v) == IF v < 0 THEN -1 ELSE 1

RECURSIVE Pow2(_)
Pow2(k) == IF k <= 0 THEN 1 ELSE 2 * Pow2(k - 1)

RECURSIVE BitLen(_)
BitLen(a) == IF a <= 0 THEN 0 ELSE 1 + BitLen(a \div 2)

\* n / d for n >= 0, d > 0, rounded to the nearest integer, ties to even.
RNEDiv(n, d) ==
    LET q == n \div d
        r == n % d
    IN  IF 2 * r < d THEN q
        ELSE IF 2 * r > d THEN q + 1
        ELSE IF q % 2 = 0 THEN q ELSE q + 1

(***************************************************************************)
(* Python floats.  self.x = float(x) (template.py:9-20) makes every        *)
(* coordinate an IEEE-754 binary float: each arithmetic result is rounded  *)
(* to the nearest value with MantBits significant bits, ties to even.      *)
(* A coordinate is held as an integer number of 2^-FracBits LDU.  CPython  *)
(* has 53 significant bits; TLC's integers have 32, so the model keeps the *)
(* rounding rule at MantBits = 13 bits.  13 = 53 mod 4, and the binary     *)
(* expansion of a tenth has period 4, so a coordinate written with one     *)
(* decimal is rounded in the same direction as in CPython.                 *)
(***************************************************************************)
MantBits == 13

FracBits == MantBits + 7

One == Pow2(FracBits)

\* num / den (den > 0), in units of 2^-FracBits, rounded as a float result.
RoundRat(num, den) ==
    LET a == Abs(num) \div den
        g == Pow2(BitLen(a) - MantBits)
    IN  Sign(num) * RNEDiv(Abs(num), den * g) * g

FAdd(a, b) == RoundRat(a + b, 1)

FSub(a, b) == RoundRat(a - b, 1)

FDivInt(a, n) == RoundRat(a, n)

\* float("d.d"): the text of a coordinate with one decimal, as tenths.
FloatOfTenths(t) == RoundRat(t * One, 10)

\* Python's round(v): to the nearest integer, ties to even (an int).
PyRound(v) == Sign(v) * RNEDiv(Abs(v), One) * One

\* sum(p.x for p in parts): left to right from 0, each partial sum rounded.
RECURSIVE PySum(_, _)
PySum(s, k) == IF k = 0 THEN 0 ELSE FAdd(PySum(s, k - 1), s[k])

(***************************************************************************)
(* Orientation scalars are held as integers in units of 1e-6, in which the *)
(* default epsilon=1e-5 of normalize_template_inplace is 10.               *)
(***************************************************************************)
Epsilon == 10

ScalarOne == 100000 * Epsilon

\* clean with <= for <: a scalar at distance epsilon is snapped too.
CleanStrict(v) ==
    IF Abs(v) <= Epsilon THEN 0
    ELSE IF Abs(v - ScalarOne) <= Epsilon THEN ScalarOne
    ELSE IF Abs(v + ScalarOne) <= Epsilon THEN -ScalarOne
    ELSE v

\* template.py:109-116, the helper clean(v) of normalize_template_inplace.
clean(v) ==
    IF Abs(v) < Epsilon THEN 0
    ELSE IF Abs(v - ScalarOne) < Epsilon THEN ScalarOne
    ELSE IF Abs(v + ScalarOne) < Epsilon THEN -ScalarOne
    ELSE v

\* template.py:96-98: the X/Z centroid of the list.
Centroid(ps, f(_)) ==
    FDivInt(PySum([i \in 1..Len(ps) |-> f(ps[i])], Len(ps)), Len(ps))

GetX(p) == p.x

GetZ(p) == p.z

\* The loop body without the recentring: the coordinates are only rounded.
NormalizePartNoRecentre(p, cx, cz) ==
    [p EXCEPT !.x = PyRound(p.x),
              !.y = PyRound(p.y),
              !.z = PyRound(p.z),
              !.m = [k \in 1..9 |-> clean(p.m[k])]]

\* template.py:101-127: the loop body, for one part.
NormalizePart(p, cx, cz) ==
    [p EXCEPT !.x = PyRound(FSub(p.x, cx)),
              !.y = PyRound(p.y),
              !.z = PyRound(FSub(p.z, cz)),
              !.m = [k \in 1..9 |-> clean(p.m[k])]]

\* template.py:71-127.
normalize_template_inplace(ps) ==
    IF Len(ps) = 0 THEN ps
    ELSE LET cx == Centroid(ps, GetX)
             cz == Centroid(ps, GetZ)
         IN  [i \in 1..Len(ps) |-> NormalizePart(ps[i], cx, cz)]


(***************************************************************************)
(* Text.  A string is a sequence of one-character strings, so that strip,  *)
(* split, startswith, str, repr, int and float are computed character by   *)
(* character.                                                              *)
(***************************************************************************)
Whitespace == {" ", "\t"}

DigitChars == <<"0", "1", "2", "3", "4", "5", "6", "7", "8", "9">>

IsDigit(c) == \E d \in 1..10 : DigitChars[d] = c

DigitVal(c) == (CHOOSE d \in 1..10 : DigitChars[d] = c) - 1

RECURSIVE Pow10(_)
Pow10(k) == IF k <= 0 THEN 1 ELSE 10 * Pow10(k - 1)

\* str(n) for an int n >= 0.
RECURSIVE NatStr(_)
NatStr(n) ==
    IF n < 10 THEN <<DigitChars[n + 1]>>
    ELSE NatStr(n \div 10) \o <<DigitChars[(n % 10) + 1]>>

\* str(n) for an int.
IntStr(n) == IF n < 0 THEN <<"-">> \o NatStr(-n) ELSE NatStr(n)

\* The value of a run of digits, most significant first.
RECURSIVE DigitsVal(_)
DigitsVal(ds) ==
    IF Len(ds) = 0 THEN 0
    ELSE 10 * DigitsVal(SubSeq(ds, 1, Len(ds) - 1)) + DigitVal(ds[Len(ds)])

AllDigits(ds) == Len(ds) > 0 /\ \A k \in 1..Len(ds) : IsDigit(ds[k])

\* str.strip(): without its leading and trailing whitespace.
RECURSIVE LStrip(_)
LStrip(t) ==
    IF Len(t) > 0 /\ t[1] \in Whitespace THEN LStrip(Tail(t)) ELSE t

RECURSIVE RStrip(_)
RStrip(t) ==
    IF Len(t) > 0 /\ t[Len(t)] \in Whitespace
    THEN RStrip(SubSeq(t, 1, Len(t) - 1)) ELSE t

Strip(t) == RStrip(LStrip(t))

\* str.startswith(prefix).
StartsWith(t, prefix) ==
    Len(t) >= Len(prefix) /\ SubSeq(t, 1, Len(prefix)) = prefix

\* The length of the first whitespace-free run of t.
RECURSIVE WordLen(_)
WordLen(t) ==
    IF Len(t) = 0 \/ t[1] \in Whitespace THEN 0 ELSE 1 + WordLen(Tail(t))

\* str.split(): the whitespace-separated words.
RECURSIVE Split(_)
Split(t) ==
    LET u == LStrip(t)
        n == WordLen(u)
    IN  IF Len(u) = 0 THEN <<>>
        ELSE <<SubSeq(u, 1, n)>> \o Split(SubSeq(u, n + 1, Len(u)))

\* " ".join(words).
RECURSIVE Join(_)
Join(ws) ==
    IF Len(ws) = 0 THEN <<>>
    ELSE IF Len(ws) = 1 THEN ws[1]
    ELSE ws[1] \o <<" ">> \o Join(Tail(ws))

Unsigned(t) == IF Len(t) > 0 /\ t[1] \in {"-", "+"} THEN Tail(t) ELSE t

SignOf(t) == IF Len(t) > 0 /\ t[1] = "-" THEN -1 ELSE 1

\* The index of the first occurrence of c in t, or 0.
IndexOf(t, c) ==
    IF \E k \in 1..Len(t) : t[k] = c
    THEN CHOOSE k \in 1..Len(t) : t[k] = c /\ \A j \in 1..(k - 1) : t[j] # c
    ELSE 0

\* int(text) accepts an optional sign and digits.
IsIntText(t) == AllDigits(Unsigned(t))

IntOfText(t) == SignOf(t) * DigitsVal(Unsigned(t))

(***************************************************************************)
(* A number is [t, v]: t is "int" or "float", v its value in units of 1e-6 *)
(* (the unit of the orientation scalars).                                  *)
(***************************************************************************)
PyInt(n) == [t |-> "int", v |-> n * ScalarOne]

PyFloat(v) == [t |-> "float", v |-> v]

\* float(text): [sign] digits [. digits] [e [sign] digits], digits before or after the point.
MantissaOf(t) ==
    LET e == IndexOf(t, "e") IN IF e = 0 THEN t ELSE SubSeq(t, 1, e - 1)

ExponentOf(t) ==
    LET e == IndexOf(t, "e") IN IF e = 0 THEN <<"0">> ELSE SubSeq(t, e + 1, Len(t))

WholeOf(u) ==
    LET d == IndexOf(u, ".") IN IF d = 0 THEN u ELSE SubSeq(u, 1, d - 1)

FractionOf(u) ==
    LET d == IndexOf(u, ".") IN IF d = 0 THEN <<>> ELSE SubSeq(u, d + 1, Len(u))

IsFloatText(t) ==
    LET u == Unsigned(MantissaOf(t))
        w == WholeOf(u)
        f == FractionOf(u)
    IN  /\ Len(w) + Len(f) > 0
        /\ \A k \in 1..Len(w) : IsDigit(w[k])
        /\ \A k \in 1..Len(f) : IsDigit(f[k])
        /\ IsIntText(ExponentOf(t))

\* The value of float(text), in units of 1e-6.
FloatOfText(t) ==
    LET u == Unsigned(MantissaOf(t))
        w == WholeOf(u)
        f == FractionOf(u)
        e == IntOfText(ExponentOf(t)) + 6 - Len(f)
        m == DigitsVal(w \o f)
    IN  SignOf(t) * (IF e >= 0 THEN m * Pow10(e) ELSE RNEDiv(m, Pow10(-e)))

\* The digits of n >= 0 without trailing zeros (at least one digit).
RECURSIVE TrimZeros(_)
TrimZeros(ds) ==
    IF Len(ds) > 1 /\ ds[Len(ds)] = "0" THEN TrimZeros(SubSeq(ds, 1, Len(ds) - 1)) ELSE ds

\* n >= 0 as exactly k digits, zero-padded on the left.
RECURSIVE PadStr(_, _)
PadStr(n, k) == IF k <= 0 THEN <<>> ELSE PadStr(n \div 10, k - 1) \o <<DigitChars[(n % 10) + 1]>>

\* repr(x) of a float of magnitude a >= 1e-4: fixed notation, shortest digits.
FixedRepr(a) ==
    NatStr(a \div ScalarOne) \o <<".">> \o TrimZeros(PadStr(a % ScalarOne, 6))

\* repr(x) of a float of magnitude 0 < a < 1e-4: scientific notation.
SciRepr(a) ==
    LET ds == NatStr(a)
        m == TrimZeros(ds)
    IN  <<m[1]>> \o (IF Len(m) > 1 THEN <<".">> \o Tail(m) ELSE <<>>)
        \o <<"e", "-">> \o PadStr(7 - Len(ds), 2)

\* repr of a float.
FloatRepr(v) ==
    (IF v < 0 THEN <<"-">> ELSE <<>>)
    \o (IF Abs(v) > 0 /\ Abs(v) < 100 THEN SciRepr(Abs(v)) ELSE FixedRepr(Abs(v)))

\* repr of a float at three decimals, as f"{v:.3f}" would print it.
FloatRepr3(v) ==
    (IF v < 0 THEN <<"-">> ELSE <<>>)
    \o NatStr(RNEDiv(Abs(v), 1000) \div 1000) \o <<".">> \o PadStr(RNEDiv(Abs(v), 1000) % 1000, 3)

(***************************************************************************)
(* The templates the model loads.                                          *)
(***************************************************************************)
MaxParts == 3

MaxPasses == 2

\* X coordinates, in tenths of an LDU as the file writes them.
XTenths == {19, 69, 801, 371}

\* Orientation matrices a..i: exact; noisy (scalars within epsilon of -1, 0
\* and 1, and at distance epsilon); a genuine rotation with scalars just
\* outside epsilon.  0.99999 and -0.99999 are left out: their binary images
\* lie strictly within epsilon of 1 and -1, which decimal arithmetic cannot tell.
MatExact == <<1000000, 0, 0, 0, 1000000, 0, 0, 0, 1000000>>

MatNoisy == <<999995, 4, -3, -9, 1000009, 10, -10, -999991, -1000009>>

MatTilted == <<707107, 11, -707107, -11, 1000010, 1000011, 707107, -1000010, 999989>>

\* The rest of a type-1 line: y and z in tenths of an LDU, and the matrix.
Kinds ==
    { <<-240, 0, MatExact>>,
      <<5, -25, MatNoisy>>,
      <<-637, 5, MatTilted>> }

\* template.py:7-21: LDrawType1.__init__, from the fields of a line.
LDrawType1(xt, kind) ==
    [color |-> 16,
     x |-> FloatOfTenths(xt), y |-> FloatOfTenths(kind[1]), z |-> FloatOfTenths(kind[2]),
     m |-> kind[3],
     part_id |-> "3626.dat"]

PartChoices == {LDrawType1(xt, k) : xt \in XTenths, k \in Kinds}

Templates == UNION {[1..n -> PartChoices] : n \in 1..MaxParts}

NormIdle ==
    /\ parts = <<>>
    /\ loaded = <<>>
    /\ once = <<>>
    /\ passes = 0

NormInit ==
    /\ parts \in Templates
    /\ loaded = parts
    /\ once = <<>>
    /\ passes = 0

\* main.py:259: normalize_template_inplace(tpl), and a later call on the same list.
Normalize ==
    /\ passes < MaxPasses
    /\ parts' = normalize_template_inplace(parts)
    /\ once' = IF passes = 0 THEN parts' ELSE once
    /\ passes' = passes + 1
    /\ UNCHANGED <<loaded, notNorm>>

(***************************************************************************)
(* LDrawType1.to_line and LDrawType1.parse.                                *)
(***************************************************************************)
ValueError(msg) == [ok |-> FALSE, err |-> msg]

\* No object yet: the call that makes one has not happened.
NotCalled == [ok |-> FALSE, err |-> "not called"]

\* template.py:7-21: LDrawType1.__init__ on the words of a line; int() and
\* float() raise ValueError on a word that is no number.
Construct(ws) ==
    IF ~IsIntText(ws[2]) THEN ValueError("invalid literal for int()")
    ELSE IF \E k \in 3..14 : ~IsFloatText(ws[k])
    THEN ValueError("could not convert string to float")
    ELSE [ok |-> TRUE,
          color |-> IntOfText(ws[2]),
          x |-> PyFloat(FloatOfText(ws[3])),
          y |-> PyFloat(FloatOfText(ws[4])),
          z |-> PyFloat(FloatOfText(ws[5])),
          m |-> [k \in 1..9 |-> PyFloat(FloatOfText(ws[5 + k]))],
          part_id |-> ws[15]]

\* template.py:30-51: LDrawType1.parse.
parse(raw) ==
    LET ws == Split(Strip(raw))
    IN  IF Len(ws) < 15 \/ ws[1] # <<"1">>
        THEN ValueError("Not a type-1 line")
        ELSE Construct(ws)

\* to_line printing every float at three decimals.
PyStr3(n) == IF n.t = "int" THEN IntStr(n.v \div ScalarOne) ELSE FloatRepr3(n.v)

\* f"{n}" of a field of an LDrawType1: str of an int, repr of a float.
PyStr(n) == IF n.t = "int" THEN IntStr(n.v \div ScalarOne) ELSE FloatRepr(n.v)

\* template.py:23-28: LDrawType1.to_line.
to_line(p) ==
    Join(<<<<"1">>, IntStr(p.color), PyStr(p.x), PyStr(p.y), PyStr(p.z)>>
         \o [k \in 1..9 |-> PyStr(p.m[k])]
         \o <<p.part_id>>)

\* A scalar as clean leaves it: the int -1, 0 or 1, or the float unchanged.
Cleaned(v) ==
    IF clean(v) \in {-ScalarOne, 0, ScalarOne}
    THEN [t |-> "int", v |-> clean(v)] ELSE PyFloat(v)

PartIds == { <<"3", "6", "2", "6", "b", "p", "0", "1", ".", "d", "a", "t">>,
             <<"9", "7", "3", ".", "d", "a", "t">> }

\* The parts of normalized templates: x, y, z are ints (template.py:104-106),
\* the orientation scalars are cleaned (template.py:119-127).
NormalizedParts ==
    { [ok |-> TRUE, color |-> c, x |-> PyInt(x), y |-> PyInt(y), z |-> PyInt(z),
       m |-> [k \in 1..9 |-> Cleaned(mat[k])], part_id |-> id] :
      c \in {0, 16}, x \in {-3, 0, 22}, y \in {-24, 0}, z \in {-1, 10},
      mat \in {MatExact, MatNoisy, MatTilted}, id \in PartIds }

LineIdle ==
    /\ obj = NotCalled
    /\ line = <<>>
    /\ reparsed = NotCalled

LineInit ==
    /\ obj \in NormalizedParts
    /\ line = <<>>
    /\ reparsed = NotCalled

ToLine ==
    /\ line = <<>>
    /\ line' = to_line(obj)
    /\ UNCHANGED <<obj, reparsed, notLine>>

Parse ==
    /\ line # <<>>
    /\ reparsed = NotCalled
    /\ reparsed' = parse(line)
    /\ UNCHANGED <<obj, line, notLine>>

(***************************************************************************)
(* load_template.                                                          *)
(***************************************************************************)
MaxLines == 3

Words(n, first) == [k \in 1..n |-> IF k = 1 THEN first ELSE <<"0">>]

RecordLine == Join(<<<<"1">>, <<"1", "6">>, <<"1", "0", ".", "5">>, <<"-", "2", "4">>,
                     <<"0">>, <<"1">>, <<"0">>, <<"0">>, <<"0">>, <<"1">>, <<"0">>,
                     <<"0">>, <<"0">>, <<"0", ".", "9", "9", "9", "9", "9", "5">>,
                     <<"9", "7", "3", ".", "d", "a", "t">>>>)

RecordLine2 == Join(<<<<"1">>, <<"4">>, <<"1", ".", "9">>, <<"-", "6", "3", ".", "7">>,
                      <<"-", "2", ".", "5">>, <<"0">>, <<"0">>, <<"1">>,
                      <<"1", "e", "-", "0", "5">>, <<"1">>, <<"0">>,
                      <<"-", "1", ".", "0", "0", "0", "0", "0", "9">>, <<"0">>, <<"0">>,
                      <<"3", "6", "2", "6", "b", "p", "0", "1", ".", "d", "a", "t">>>>)

\* The lines a template file is made of: a comment, a blank line, a record
\* with 14 fields (plain, and indented with trailing blanks), records with
\* 13, 1 and 0 fields after the discriminator, a record with 15 fields,
\* a record whose x is no number, and a line of another type.
SourceLines ==
    { <<"0", " ", "N", "a", "m", "e">>,
      <<" ">>,
      RecordLine,
      <<" ", " ">> \o RecordLine2 \o <<" ">>,
      Join(Words(14, <<"1">>)),
      <<"1", " ", "1", "6">>,
      <<"1">>,
      RecordLine \o <<" ", "x">>,
      Join(<<<<"1">>, <<"1", "6">>, <<"x">>>> \o Words(12, <<"0">>)),
      <<"2", " ", "2", "4", " ", "0", " ", "0">> }

Sources == UNION {[1..n -> SourceLines] : n \in 1..MaxLines}

LoadIdle ==
    /\ src = <<>>
    /\ lineno = 0
    /\ items = <<>>
    /\ outcome = "idle"

LoadInit ==
    /\ src \in Sources
    /\ lineno = 1
    /\ items = <<>>
    /\ outcome = "reading"

\* template.py:59-64: one turn of the loop over the lines.
ReadLine ==
    /\ outcome = "reading"
    /\ lineno <= Len(src)
    /\ LET raw == Strip(src[lineno])
       IN  \/ /\ raw = <<>> \/ StartsWith(raw, <<"0">>)
              /\ UNCHANGED <<items, outcome>>
           \/ /\ ~(raw = <<>> \/ StartsWith(raw, <<"0">>))
              /\ StartsWith(raw, <<"1", " ">>)
              /\ parse(raw).ok
              /\ items' = Append(items, parse(raw))
              /\ UNCHANGED outcome
           \/ /\ ~(raw = <<>> \/ StartsWith(raw, <<"0">>))
              /\ StartsWith(raw, <<"1", " ">>)
              /\ ~parse(raw).ok
              /\ outcome' = "raised"
              /\ UNCHANGED items
           \/ /\ ~(raw = <<>> \/ StartsWith(raw, <<"0">>))
              /\ ~StartsWith(raw, <<"1", " ">>)
              /\ UNCHANGED <<items, outcome>>
    /\ lineno' = lineno + 1
    /\ UNCHANGED <<src, notLoad>>

\* template.py:66-68: after the loop.
Return ==
    /\ outcome = "reading"
    /\ lineno > Len(src)
    /\ outcome' = IF items = <<>> THEN "raised" ELSE "returned"
    /\ UNCHANGED <<src, lineno, items, notLoad>>

(***************************************************************************)
(* The scene context (context.py) and the plates (plate.py).  A position   *)
(* in studs is held doubled (in half studs), so that the half-stud centres *)
(* of the code stay integers.                                              *)
(***************************************************************************)
STUD == 20

BASEPLATE_THICKNESS == 8

ground_y == 0

\* context.py:36-39: SceneContext.studs, of a position in half studs.
studs(h) == (h * STUD) \div 2

\* context.py:41-45: SceneContext.baseplate_origin_y.
baseplate_origin_y == ground_y + BASEPLATE_THICKNESS \div 2

\* context.py:47-51: SceneContext.baseplate_top_origin_y.
baseplate_top_origin_y == ground_y - BASEPLATE_THICKNESS \div 2

\* plate.py:1-21: the catalog of plates, by width and length.
PLATES ==
    [w \in {1, 2} |->
        IF w = 1
        THEN [l \in {1, 2, 3, 4, 6, 8, 10, 12} |->
                CASE l = 1 -> "3024.dat" [] l = 2 -> "3023.dat" [] l = 3 -> "3623.dat"
                  [] l = 4 -> "3710.dat" [] l = 6 -> "3666.dat" [] l = 8 -> "3460.dat"
                  [] l = 10 -> "4477.dat" [] l = 12 -> "60479.dat"]
        ELSE [l \in {2, 3, 4, 6, 8, 10, 12} |->
                CASE l = 2 -> "3022.dat" [] l = 3 -> "3021.dat" [] l = 4 -> "3020.dat"
                  [] l = 6 -> "3795.dat" [] l = 8 -> "3034.dat" [] l = 10 -> "3832.dat"
                  [] l = 12 -> "2445.dat"]]

\* What a call that raised KeyError leaves in place of its result.
KeyError == [error |-> "KeyError"]

Identity == <<1, 0, 0, 0, 1, 0, 0, 0, 1>>

RotatedY90 == <<0, 0, 1, 0, 1, 0, -1, 0, 0>>

\* plate.py:40-46: build_plate; PLATES[1][length] raises KeyError.
build_plate(hx, hz, color, length) ==
    IF length \notin DOMAIN PLATES[1] THEN KeyError
    ELSE [color |-> color, x |-> studs(hx), y |-> baseplate_top_origin_y,
          z |-> studs(hz), m |-> Identity, part |-> PLATES[1][length],
          length |-> length]

\* plate.py:49-56: build_plate_rotated.
build_plate_rotated(hx, hz, color, length) ==
    IF length \notin DOMAIN PLATES[1] THEN KeyError
    ELSE [color |-> color, x |-> studs(hx), y |-> baseplate_top_origin_y,
          z |-> studs(hz), m |-> RotatedY90, part |-> PLATES[1][length],
          length |-> length]

(***************************************************************************)
(* build_group_frame (main.py:22-74).                                      *)
(***************************************************************************)
width == 32

height == 30

\* main.py:42-46, in half studs.
Left == 2 * center[1] - (width - 1)

Right == Left + 2 * (width - 1)

Bottom == 2 * center[2] - (height - 1)

Top == Bottom + 2 * (height - 1)

\* A decomposition of the top and bottom sides that is 2 studs short.
ShortSegments == <<12, 12, 6>>

\* main.py:51.
horizontal_segments == <<12, 12, 8>>

\* main.py:64.
vertical_segments == <<12, 12, 4>>

frame_color == 15

\* The vertical runs started on the corner cell.
VerticalStartAtCorner == Bottom

\* main.py:67: z_start = bottom + 1, in half studs: the bottom corner excluded.
VerticalStart == Bottom + 2

\* The centres build_groups_grid gives the frames of a 3 x 5 grid.
FrameCentres == {<<x, z>> : x \in {0, 32, 64}, z \in {-32, 0, 32, 64, 96}}

FrameIdle ==
    /\ center = <<0, 0>>
    /\ phase = "idle"
    /\ edge = 0
    /\ seg = 0
    /\ cursor = 0
    /\ frame = <<>>

\* main.py:36-54: up to the first x_start = left.
FrameInit ==
    /\ center \in FrameCentres
    /\ phase = "horizontal"
    /\ edge = 1
    /\ seg = 1
    /\ cursor = 2 * center[1] - (width - 1)
    /\ frame = <<>>

\* main.py:56-59: one turn of the loop over horizontal_segments.
PlaceHorizontal ==
    /\ phase = "horizontal"
    /\ seg <= Len(horizontal_segments)
    /\ LET length == horizontal_segments[seg]
           z_edge == IF edge = 1 THEN Bottom ELSE Top
           x_center == cursor + (length - 1)
           plate == build_plate(x_center, z_edge, frame_color, length)
       IN  IF plate = KeyError
           THEN phase' = "KeyError" /\ UNCHANGED <<frame, cursor, seg>>
           ELSE /\ frame' = Append(frame, plate)
                /\ cursor' = cursor + 2 * length
                /\ seg' = seg + 1
                /\ UNCHANGED phase
    /\ UNCHANGED <<center, edge, notFrame>>

\* main.py:53-54: the next turn of the loop over (bottom, top).
NextHorizontalSide ==
    /\ phase = "horizontal"
    /\ seg > Len(horizontal_segments)
    /\ edge = 1
    /\ edge' = 2
    /\ cursor' = Left
    /\ seg' = 1
    /\ UNCHANGED <<center, phase, frame, notFrame>>

\* main.py:64-67: the loop over (left, right) starts.
StartVertical ==
    /\ phase = "horizontal"
    /\ seg > Len(horizontal_segments)
    /\ edge = 2
    /\ phase' = "vertical"
    /\ edge' = 1
    /\ cursor' = VerticalStart
    /\ seg' = 1
    /\ UNCHANGED <<center, frame, notFrame>>

\* main.py:69-72: one turn of the loop over vertical_segments.
PlaceVertical ==
    /\ phase = "vertical"
    /\ seg <= Len(vertical_segments)
    /\ LET length == vertical_segments[seg]
           x_edge == IF edge = 1 THEN Left ELSE Right
           z_center == cursor + (length - 1)
           plate == build_plate_rotated(x_edge, z_center, frame_color, length)
       IN  IF plate = KeyError
           THEN phase' = "KeyError" /\ UNCHANGED <<frame, cursor, seg>>
           ELSE /\ frame' = Append(frame, plate)
                /\ cursor' = cursor + 2 * length
                /\ seg' = seg + 1
                /\ UNCHANGED phase
    /\ UNCHANGED <<center, edge, notFrame>>

\* main.py:66-67: the next turn of the loop over (left, right).
NextVerticalSide ==
    /\ phase = "vertical"
    /\ seg > Len(vertical_segments)
    /\ edge = 1
    /\ edge' = 2
    /\ cursor' = VerticalStart
    /\ seg' = 1
    /\ UNCHANGED <<center, phase, frame, notFrame>>

\* main.py:74: return lines.
FrameReturn ==
    /\ phase = "vertical"
    /\ seg > Len(vertical_segments)
    /\ edge = 2
    /\ phase' = "returned"
    /\ UNCHANGED <<center, edge, seg, cursor, frame, notFrame>>

(***************************************************************************)
(* The 5x7 glyphs (digits.py).                                             *)
(***************************************************************************)
PLATE_1x1 == "3024.dat"

\* digits.py:30-121: DIGITS_5x7, each glyph 7 rows of 5 pixels.
GlyphChars == {"0", "1", "2", "3", "4", "5", "6", "7", "8", "9"}

Glyph(ch) ==
  CASE
    ch = "1" ->
       << <<".", ".", "#", ".", ".">>,
          <<".", "#", "#", ".", ".">>,
          <<".", ".", "#", ".", ".">>,
          <<".", ".", "#", ".", ".">>,
          <<".", ".", "#", ".", ".">>,
          <<".", ".", "#", ".", ".">>,
          <<".", "#", "#", "#", ".">> >>
    []
    ch = "2" ->
       << <<".", "#", "#", "#", ".">>,
          <<"#", ".", ".", ".", "#">>,
          <<".", ".", ".", ".", "#">>,
          <<".", ".", "#", "#", ".">>,
          <<".", "#", ".", ".", ".">>,
          <<"#", ".", ".", ".", ".">>,
          <<"#", "#", "#", "#", "#">> >>
    []
    ch = "3" ->
       << <<"#", "#", "#", "#", ".">>,
          <<".", ".", ".", ".", "#">>,
          <<".", ".", "#", "#", ".">>,
          <<".", ".", ".", ".", "#">>,
          <<".", ".", ".", ".", "#">>,
          <<"#", ".", ".", ".", "#">>,
          <<".", "#", "#", "#", ".">> >>
    []
    ch = "4" ->
       << <<"#", ".", ".", "#", ".">>,
          <<"#", ".", ".", "#", ".">>,
          <<"#", ".", ".", "#", ".">>,
          <<"#", "#", "#", "#", "#">>,
          <<".", ".", ".", "#", ".">>,
          <<".", ".", ".", "#", ".">>,
          <<".", ".", ".", "#", ".">> >>
    []
    ch = "5" ->
       << <<"#", "#", "#", "#", "#">>,
          <<"#", ".", ".", ".", ".">>,
          <<"#", "#", "#", "#", ".">>,
          <<".", ".", ".", ".", "#">>,
          <<".", ".", ".", ".", "#">>,
          <<"#", ".", ".", ".", "#">>,
          <<".", "#", "#", "#", ".">> >>
    []
    ch = "6" ->
       << <<".", "#", "#", "#", ".">>,
          <<"#", ".", ".", ".", ".">>,
          <<"#", "#", "#", "#", ".">>,
          <<"#", ".", ".", ".", "#">>,
          <<"#", ".", ".", ".", "#">>,
          <<"#", ".", ".", ".", "#">>,
          <<".", "#", "#", "#", ".">> >>
    []
    ch = "7" ->
       << <<"#", "#", "#", "#", "#">>,
          <<".", ".", ".", ".", "#">>,
          <<".", ".", ".", "#", ".">>,
          <<".", ".", "#", ".", ".">>,
          <<".", "#", ".", ".", ".">>,
          <<"#", ".", ".", ".", ".">>,
          <<"#", ".", ".", ".", ".">> >>
    []
    ch = "8" ->
       << <<".", "#", "#", "#", ".">>,
          <<"#", ".", ".", ".", "#">>,
          <<"#", ".", ".", ".", "#">>,
          <<".", "#", "#", "#", ".">>,
          <<"#", ".", ".", ".", "#">>,
          <<"#", ".", ".", ".", "#">>,
          <<".", "#", "#", "#", ".">> >>
    []
    ch = "9" ->
       << <<".", "#", "#", "#", ".">>,
          <<"#", ".", ".", ".", "#">>,
          <<"#", ".", ".", ".", "#">>,
          <<".", "#", "#", "#", "#">>,
          <<".", ".", ".", ".", "#">>,
          <<".", ".", ".", "#", ".">>,
          <<".", "#", "#", ".", ".">> >>
    []
    ch = "0" ->
       << <<".", "#", "#", "#", ".">>,
          <<"#", ".", ".", ".", "#">>,
          <<"#", ".", ".", "#", "#">>,
          <<"#", ".", "#", ".", "#">>,
          <<"#", "#", ".", ".", "#">>,
          <<"#", ".", ".", ".", "#">>,
          <<".", "#", "#", "#", ".">> >>

DIGITS_5x7 == [ch \in GlyphChars |-> Glyph(ch)]

glyph_height == 7

Dots(n) == [k \in 1..n |-> "."]

\* digits.py:137-143: row r after the first i characters of text.
RECURSIVE RowGapAfterEach(_, _, _, _)
RowGapAfterEach(t, g, r, i) ==
    IF i = 0 THEN <<>>
    ELSE RowGapAfterEach(t, g, r, i - 1) \o DIGITS_5x7[t[i]][r] \o Dots(g)

RECURSIVE RenderRow(_, _, _, _)
RenderRow(t, g, r, i) ==
    IF i = 0 THEN <<>>
    ELSE RenderRow(t, g, r, i - 1) \o DIGITS_5x7[t[i]][r]
         \o (IF i - 1 < Len(t) - 1 THEN Dots(g) ELSE <<>>)

\* digits.py:124-145: render_text_5x7.
render_text_5x7(t, g) ==
    IF Len(t) = 0 THEN ValueError("Empty text")
    ELSE IF \E i \in 1..Len(t) : t[i] \notin DOMAIN DIGITS_5x7
    THEN ValueError("Unsupported character")
    ELSE [ok |-> TRUE,
          rows |-> [r \in 1..glyph_height |-> RenderRow(t, g, r, Len(t))]]

\* digits.py:192-193 without the half-stud correction, in half studs.
OriginNoHalfStud(c, dimension) == 2 * c - (dimension - 1)

\* digits.py:188-193: origin_x and origin_z, in half studs (half_stud = 0.5).
Origin(c, dimension) == 2 * c - (dimension - 1) + 1

\* digits.py:210 without the inversion: bitmap row 0 at the smallest Z.
CellZNotInverted(origin_z, h, row_idx) == origin_z + 2 * row_idx

\* digits.py:210: stud_z = origin_z + (height - 1 - row_idx), in half studs.
CellZ(origin_z, h, row_idx) == origin_z + 2 * (h - 1 - row_idx)

\* digits.py:206: stud_x = origin_x + col_idx, in half studs.
CellX(origin_x, col_idx) == origin_x + 2 * col_idx

\* digits.py:198-222: the placements of the first k cells, row by row.
RECURSIVE PlaceCells(_, _, _, _, _)
PlaceCells(rows, k, origin_x, origin_z, color) ==
    IF k = 0 THEN <<>>
    ELSE LET w == Len(rows[1])
             row_idx == (k - 1) \div w
             col_idx == (k - 1) % w
             stud_x == CellX(origin_x, col_idx)
             stud_z == CellZ(origin_z, Len(rows), row_idx)
         IN  PlaceCells(rows, k - 1, origin_x, origin_z, color)
             \o (IF rows[row_idx + 1][col_idx + 1] # "#" THEN <<>>
                 ELSE << [color |-> color, x |-> studs(stud_x),
                          y |-> baseplate_top_origin_y, z |-> studs(stud_z),
                          m |-> Identity, part |-> PLATE_1x1] >>)

\* digits.py:148-224: build_centered_digit (render_text_5x7 with its default gap=1).
build_centered_digit(t, center_stud_x, center_stud_z, color) ==
    LET rendered == render_text_5x7(t, 1)
    IN  IF ~rendered.ok THEN rendered
        ELSE LET h == Len(rendered.rows)
                 w == Len(rendered.rows[1])
             IN  [ok |-> TRUE,
                  lines |-> PlaceCells(rendered.rows, h * w,
                                       Origin(center_stud_x, w),
                                       Origin(center_stud_z, h), color)]

MaxText == 2

MaxGap == 2

\* The texts: of digits and of a character that has no glyph.
Texts == UNION {[1..n -> GlyphChars \cup {"A"}] : n \in 0..MaxText}

DigitCentres == {<<0, 0>>, <<32, 96>>}

DigitIdle ==
    /\ text = <<>>
    /\ gap = 0
    /\ matrix = NotCalled
    /\ digit_center = <<0, 0>>
    /\ placed = NotCalled
    /\ digit_color = 15

DigitInit ==
    /\ text \in Texts
    /\ gap \in 0..MaxGap
    /\ matrix = NotCalled
    /\ digit_center = <<0, 0>>
    /\ placed = NotCalled
    /\ digit_color = 15

\* A call of render_text_5x7(text, gap).
Render ==
    /\ matrix = NotCalled
    /\ matrix' = render_text_5x7(text, gap)
    /\ UNCHANGED <<text, gap, digit_center, placed, digit_color, notDigit>>

DigitColors == {15, 4}

\* main.py:82-90: a call of build_centered_digit at some centre, in some color.
BuildDigit ==
    /\ placed = NotCalled
    /\ \E c \in DigitCentres, color \in DigitColors :
          /\ digit_center' = c
          /\ digit_color' = color
          /\ placed' = build_centered_digit(text, c[1], c[2], color)
    /\ UNCHANGED <<text, gap, matrix, notDigit>>

(***************************************************************************)
(* build_groups_grid (main.py:125-165).                                    *)
(***************************************************************************)
studs_per_plate == 32

row_offset == 1

MaxCols == 5

MaxRows == 5

\* main.py:146 for every group: group 10 in the column of the loop, too.
CenterXByColumn(k, col, cols) == col * studs_per_plate

\* main.py:142-147: center_x of group k, placed in the loop's column col.
CenterX(k, col, cols) ==
    IF k = 10 THEN (cols \div 2) * studs_per_plate ELSE col * studs_per_plate

\* baseplate.py:1.
PLATE_32x32 == "3811.dat"

\* baseplate.py:4-17: build_baseplate_grid with its default origin (0, 0);
\* the k-th record is that of row (k-1) div cols and column (k-1) mod cols.
build_baseplate_grid(cols, rows, color) ==
    [k \in 1..(cols * rows) |->
        LET row == (k - 1) \div cols
            col == (k - 1) % cols
        IN  [color |-> color,
             x |-> studs(2 * (0 + col * 32)),
             y |-> baseplate_origin_y,
             z |-> studs(2 * (0 + row * 32)),
             m |-> Identity, part |-> PLATE_32x32,
             row |-> row, col |-> col]]

\* The plain inversion of the row, without row_offset.
CenterZNoOffset(row, rows) == (rows - 1 - row) * studs_per_plate

\* main.py:144 and 147: center_z of a group placed in the loop's row.
CenterZ(row, rows) == (rows - 1 - row - row_offset) * studs_per_plate

GridIdle ==
    /\ grid_cols = 0
    /\ grid_rows = 0
    /\ grid_r = 0
    /\ grid_c = 0
    /\ group_index = 0
    /\ groups = <<>>
    /\ grid_pc = "idle"

\* main.py:127-132: up to the first turn of the loops.
GridInit ==
    /\ grid_cols \in 1..MaxCols
    /\ grid_rows \in 1..MaxRows
    /\ grid_r = 0
    /\ grid_c = 0
    /\ group_index = 1
    /\ groups = <<>>
    /\ grid_pc = "loop"

\* main.py:133-160: one turn of the inner loop; the call of build_group is
\* kept as its arguments and the place in the loops it was made at.
PlaceGroup ==
    /\ grid_pc = "loop"
    /\ grid_r < grid_rows
    /\ grid_c < grid_cols
    /\ group_index <= 10
    /\ groups' = Append(groups,
                        [digit |-> IntStr(group_index),
                         center_x |-> CenterX(group_index, grid_c, grid_cols),
                         center_z |-> CenterZ(grid_r, grid_rows),
                         r |-> grid_r, c |-> grid_c])
    /\ group_index' = group_index + 1
    /\ grid_c' = grid_c + 1
    /\ UNCHANGED <<grid_cols, grid_rows, grid_r, grid_pc, notGrid>>

\* main.py:132-133, 162: the inner loop is exhausted and the outer goes on.
NextRow ==
    /\ grid_pc = "loop"
    /\ grid_r < grid_rows
    /\ grid_c = grid_cols
    /\ group_index <= 10
    /\ grid_r' = grid_r + 1
    /\ grid_c' = 0
    /\ UNCHANGED <<grid_cols, grid_rows, group_index, groups, grid_pc, notGrid>>

\* main.py:135-136, 162-165: break out of both loops and return.
Break ==
    /\ grid_pc = "loop"
    /\ grid_r < grid_rows
    /\ group_index > 10
    /\ grid_pc' = "returned"
    /\ UNCHANGED <<grid_cols, grid_rows, grid_r, grid_c, group_index, groups, notGrid>>

\* main.py:132, 165: the outer loop is exhausted; return.
GridReturn ==
    /\ grid_pc = "loop"
    /\ grid_r = grid_rows
    /\ grid_pc' = "returned"
    /\ UNCHANGED <<grid_cols, grid_rows, grid_r, grid_c, group_index, groups, notGrid>>

(***************************************************************************)
(* main (main.py:228-298).                                                 *)
(***************************************************************************)
RECURSIVE Gcd(_, _)
Gcd(a, b) == IF b = 0 THEN a ELSE Gcd(b, a % b)

\* float(text) as a binary float, from the value of the text in units of 1e-6.
FloatOfMicro(v) ==
    LET g == Gcd(ScalarOne, Abs(v))
    IN  RoundRat((v \div g) * One, ScalarOne \div g)

\* template.py:7-21: the object load_template made, as normalisation reads it.
AsPart(it) ==
    [color |-> it.color,
     x |-> FloatOfMicro(it.x.v), y |-> FloatOfMicro(it.y.v), z |-> FloatOfMicro(it.z.v),
     m |-> [k \in 1..9 |-> it.m[k].v],
     part_id |-> it.part_id]

NotWritten == [written |-> FALSE]

MainIdle ==
    /\ pc = "idle"
    /\ lines = <<>>
    /\ output = NotWritten
    /\ error = "none"

MainInit ==
    /\ pc = "start"
    /\ lines = <<>>
    /\ output = NotWritten
    /\ error = "none"

\* The template file main reads, before load_template is called.
TemplateFile ==
    /\ src \in Sources
    /\ lineno = 0
    /\ items = <<>>
    /\ outcome = "idle"

\* main.py:229-254: the build directory, the header and the baseplate grid;
\* mkdir may raise.
MainStart ==
    /\ pc = "start"
    /\ \/ /\ pc' = "load"
          /\ lines' = <<"header", "baseplates">>
          /\ UNCHANGED error
       \/ /\ pc' = "aborted"
          /\ error' = "OSError"
          /\ UNCHANGED lines
    /\ UNCHANGED <<output, normVars, loadVars, gridVars, notMain>>

\* main.py:258, template.py:57-59: load_template is called; read_text may raise.
CallLoadTemplate ==
    /\ pc = "load"
    /\ \/ /\ pc' = "loading"
          /\ lineno' = 1
          /\ outcome' = "reading"
          /\ UNCHANGED error
       \/ /\ pc' = "aborted"
          /\ error' = "FileNotFoundError"
          /\ UNCHANGED <<lineno, outcome>>
    /\ UNCHANGED <<lines, output, src, items, normVars, gridVars, notMain>>

\* main.py:258 with the ValueError caught: main goes on with what was parsed.
SwallowLoadError ==
    /\ pc = "loading"
    /\ outcome = "raised"
    /\ pc' = "groups"
    /\ UNCHANGED <<lines, output, error, normVars, loadVars, gridVars, notMain>>

\* main.py:258: the ValueError of load_template leaves main.
PropagateLoadError ==
    /\ pc = "loading"
    /\ outcome = "raised"
    /\ pc' = "aborted"
    /\ error' = "ValueError"
    /\ UNCHANGED <<lines, output, normVars, loadVars, gridVars, notMain>>

\* main.py:259: normalize_template_inplace(tpl).
MainNormalize ==
    /\ pc = "loading"
    /\ outcome = "returned"
    /\ loaded' = [k \in 1..Len(items) |-> AsPart(items[k])]
    /\ parts' = normalize_template_inplace(loaded')
    /\ once' = parts'
    /\ passes' = 1
    /\ pc' = "groups"
    /\ UNCHANGED <<lines, output, error, loadVars, gridVars, notMain>>

\* main.py:236-237, 262-268: build_groups_grid(ctx, tpl, cols=3, rows=5) is called.
CallGroupsGrid ==
    /\ pc = "groups"
    /\ grid_pc = "idle"
    /\ grid_cols' = 3
    /\ grid_rows' = 5
    /\ grid_r' = 0
    /\ grid_c' = 0
    /\ group_index' = 1
    /\ grid_pc' = "loop"
    /\ UNCHANGED <<groups, mainVars, normVars, loadVars, notMain>>

\* main.py:261-269: lines.extend(build_groups_grid(...)).
ExtendGroups ==
    /\ pc = "groups"
    /\ grid_pc = "returned"
    /\ lines' = Append(lines, "groups")
    /\ pc' = "text1"
    /\ UNCHANGED <<output, error, normVars, loadVars, gridVars, notMain>>

\* main.py:270-291, 201-204: lines.extend(build_text_on_baseplate(...)), which
\* raises ValueError on a character that LETTERS_5x7 lacks.
ExtendText ==
    /\ pc \in {"text1", "text2"}
    /\ \/ /\ lines' = Append(lines, IF pc = "text1" THEN "SOPHIE" ELSE "LAURENT")
          /\ pc' = IF pc = "text1" THEN "text2" ELSE "write"
          /\ UNCHANGED error
       \/ /\ pc' = "aborted"
          /\ error' = "ValueError"
          /\ UNCHANGED lines
    /\ UNCHANGED <<output, normVars, loadVars, gridVars, notMain>>

\* main.py:296-298: the one write of the output file.
WriteOutput ==
    /\ pc = "write"
    /\ output' = [written |-> TRUE, content |-> lines]
    /\ pc' = "done"
    /\ UNCHANGED <<lines, error, normVars, loadVars, gridVars, notMain>>

(***************************************************************************)
(* build_minifig (minifig.py:86-144).                                      *)
(***************************************************************************)
MaxFigParts == 2

MaxCalls == 2

\* The rotation around Y by +90 degrees.
RPlus90 == <<0, 0, 1, 0, 1, 0, -1, 0, 0>>

\* minifig.py:97-101: rotate around Y by -90 degrees.
R == <<0, 0, -1, 0, 1, 0, 1, 0, 0>>

\* minifig.py:97-101, the entries as the code indexes them: R[0]..R[8].
RAt(k) == R[k + 1]

\* The product of an int of R and a float: exact for -1, 0 and 1.
FMulInt(k, v) == RoundRat(k * v, 1)

\* minifig.py:112-114: R[i] * nx + R[i+1] * ny + R[i+2] * nz, left to right.
RotateVector(i, nx, ny, nz) ==
    FAdd(FAdd(FMulInt(RAt(i), nx), FMulInt(RAt(i + 1), ny)), FMulInt(RAt(i + 2), nz))

\* minifig.py:128-136: the scalar of R * M in row i \div 3 and column j.
RotateScalar(i, j, m) ==
    RAt(i) * m[1 + j] + RAt(i + 1) * m[4 + j] + RAt(i + 2) * m[7 + j]

\* minifig.py:119: dy, in LDU.
MinifigDy == baseplate_origin_y - 30

\* minifig.py:107-142: the record emitted for part p; the f-string's fields
\* are kept as the values it formats.
TransformPart(p, cx, cz, dx, dz) ==
    LET nx == FSub(p.x, cx)
        ny == p.y
        nz == FSub(p.z, cz)
    IN  [color |-> p.color,
         x |-> FAdd(RotateVector(0, nx, ny, nz), dx),
         y |-> FAdd(RotateVector(3, nx, ny, nz), MinifigDy * One),
         z |-> FAdd(RotateVector(6, nx, ny, nz), dz),
         m |-> [k \in 1..9 |-> RotateScalar(3 * ((k - 1) \div 3), (k - 1) % 3, p.m)],
         part_id |-> p.part_id]

ZeroDivisionError == [ok |-> FALSE, err |-> "ZeroDivisionError"]

\* minifig.py:86-144: build_minifig; len(parts) = 0 makes the division of
\* line 92 raise ZeroDivisionError.
build_minifig(tpl, stud_x, stud_z) ==
    IF Len(tpl) = 0 THEN ZeroDivisionError
    ELSE LET cx == Centroid(tpl, GetX)
             cz == Centroid(tpl, GetZ)
             dx == studs(2 * stud_x) * One
             dz == studs(2 * stud_z) * One
         IN  [ok |-> TRUE,
              lines |-> [k \in 1..Len(tpl) |-> TransformPart(tpl[k], cx, cz, dx, dz)]]

\* The part object with its centroid-relative position stored back into it.
RecentredInPlace(p, cx, cz) == [p EXCEPT !.x = FSub(p.x, cx), !.z = FSub(p.z, cz)]

\* minifig.py:107-142: the part object p after the loops: nx, ny, nz, rx, ry,
\* rz and the final values are locals; no attribute of p is assigned.
PartAfterCall(p, cx, cz) == p

\* minifig.py:89-144: the objects of template after a call.
TemplateAfterCall(tpl) ==
    IF Len(tpl) = 0 THEN tpl
    ELSE [k \in 1..Len(tpl) |->
            PartAfterCall(tpl[k], Centroid(tpl, GetX), Centroid(tpl, GetZ))]

\* The templates handed to build_minifig: empty, as loaded, and normalized.
LoadedFigTemplates == UNION {[1..n -> PartChoices] : n \in 1..MaxFigParts}

FigTemplates ==
    {<<>>} \cup LoadedFigTemplates
           \cup {normalize_template_inplace(t) : t \in LoadedFigTemplates}

\* main.py:105-109: stud positions build_group asks for.
FigTargets == {<<-12, -8>>, <<20, 8>>}

FigIdle ==
    /\ template = <<>>
    /\ stud_target = <<0, 0>>
    /\ out = NotCalled
    /\ calls = 0

FigInit ==
    /\ template \in FigTemplates
    /\ stud_target = <<0, 0>>
    /\ out = NotCalled
    /\ calls = 0

\* main.py:111-118: a call build_minifig(ctx, template, stud_x=fx, stud_z=fz).
BuildMinifig ==
    /\ calls < MaxCalls
    /\ \E t \in FigTargets :
          /\ stud_target' = t
          /\ out' = build_minifig(template, t[1], t[2])
    /\ template' = TemplateAfterCall(template)
    /\ calls' = calls + 1
    /\ UNCHANGED notFig

(***************************************************************************)
(* build_group (main.py:77-122).                                           *)
(***************************************************************************)
spacing == 8

group_cols == 4

group_rows == 3

\* The loops with no position skipped.
SkipsNothing(row, col) == FALSE

\* main.py:101: the two center positions on the middle row are skipped.
IsSkipped(row, col) == row = 1 /\ col \in {1, 2}

\* main.py:105: x_offset = (col - (cols - 1) / 2) * spacing, a whole number.
x_offset(col) == ((2 * col - (group_cols - 1)) * spacing) \div 2

\* main.py:106: z_offset = (row - (rows - 1) / 2) * spacing.
z_offset(row) == ((2 * row - (group_rows - 1)) * spacing) \div 2

GroupIdle ==
    /\ group_center = <<0, 0>>
    /\ group_row = 0
    /\ group_col = 0
    /\ group_calls = <<>>
    /\ group_pc = "idle"

\* main.py:77-79: build_group is entered with a centre build_groups_grid gives.
GroupInit ==
    /\ group_center \in FrameCentres
    /\ group_row = 0
    /\ group_col = 0
    /\ group_calls = <<>>
    /\ group_pc = "digit"

\* main.py:82-97: the digit is placed at the centre; the loops start.
CallCenteredDigit ==
    /\ group_pc = "digit"
    /\ group_calls' = Append(group_calls,
                             [fn |-> "build_centered_digit",
                              x |-> group_center[1], z |-> group_center[2]])
    /\ group_pc' = "loop"
    /\ UNCHANGED <<group_center, group_row, group_col, notGroup>>

\* main.py:98-118: a turn of the inner loop that places a minifig.
PlaceFigure ==
    /\ group_pc = "loop"
    /\ group_row < group_rows
    /\ group_col < group_cols
    /\ ~IsSkipped(group_row, group_col)
    /\ group_calls' = Append(group_calls,
                             [fn |-> "build_minifig",
                              x |-> group_center[1] + x_offset(group_col),
                              z |-> group_center[2] + z_offset(group_row)])
    /\ group_col' = group_col + 1
    /\ UNCHANGED <<group_center, group_row, group_pc, notGroup>>

\* main.py:98-102: a turn of the inner loop that continues.
SkipFigure ==
    /\ group_pc = "loop"
    /\ group_row < group_rows
    /\ group_col < group_cols
    /\ IsSkipped(group_row, group_col)
    /\ group_col' = group_col + 1
    /\ UNCHANGED <<group_center, group_row, group_calls, group_pc, notGroup>>

\* main.py:97-98: the inner loop is exhausted.
NextFigureRow ==
    /\ group_pc = "loop"
    /\ group_row < group_rows
    /\ group_col = group_cols
    /\ group_row' = group_row + 1
    /\ group_col' = 0
    /\ UNCHANGED <<group_center, group_calls, group_pc, notGroup>>

\* main.py:120-122: the frame is built around the centre; return.
CallGroupFrame ==
    /\ group_pc = "loop"
    /\ group_row = group_rows
    /\ group_calls' = Append(group_calls,
                             [fn |-> "build_group_frame",
                              x |-> group_center[1], z |-> group_center[2]])
    /\ group_pc' = "returned"
    /\ UNCHANGED <<group_center, group_row, group_col, notGroup>>

(***************************************************************************)
(* The specifications.                                                     *)
(***************************************************************************)
InitNorm ==
    NormInit /\ LineIdle /\ LoadIdle /\ FrameIdle /\ DigitIdle /\ GridIdle /\ MainIdle /\ FigIdle
    /\ GroupIdle

NextNorm == Normalize

SpecNorm == InitNorm /\ [][NextNorm]_vars

InitLine ==
    LineInit /\ NormIdle /\ LoadIdle /\ FrameIdle /\ DigitIdle /\ GridIdle /\ MainIdle /\ FigIdle
    /\ GroupIdle

NextLine == ToLine \/ Parse

SpecLine == InitLine /\ [][NextLine]_vars

InitLoad ==
    LoadInit /\ NormIdle /\ LineIdle /\ FrameIdle /\ DigitIdle /\ GridIdle /\ MainIdle /\ FigIdle
    /\ GroupIdle

NextLoad == ReadLine \/ Return

SpecLoad == InitLoad /\ [][NextLoad]_vars

InitFrame ==
    FrameInit /\ NormIdle /\ LineIdle /\ LoadIdle /\ DigitIdle /\ GridIdle /\ MainIdle /\ FigIdle
    /\ GroupIdle

NextFrame ==
    \/ PlaceHorizontal
    \/ NextHorizontalSide
    \/ StartVertical
    \/ PlaceVertical
    \/ NextVerticalSide
    \/ FrameReturn

SpecFrame == InitFrame /\ [][NextFrame]_vars

InitDigit ==
    DigitInit /\ NormIdle /\ LineIdle /\ LoadIdle /\ FrameIdle /\ GridIdle /\ MainIdle /\ FigIdle
    /\ GroupIdle

NextDigit == Render \/ BuildDigit

SpecDigit == InitDigit /\ [][NextDigit]_vars

InitGrid ==
    GridInit /\ NormIdle /\ LineIdle /\ LoadIdle /\ FrameIdle /\ DigitIdle /\ MainIdle /\ FigIdle
    /\ GroupIdle

NextGrid == PlaceGroup \/ NextRow \/ Break \/ GridReturn

SpecGrid == InitGrid /\ [][NextGrid]_vars

InitMain ==
    MainInit /\ TemplateFile /\ NormIdle /\ LineIdle /\ FrameIdle /\ DigitIdle /\ GridIdle /\ FigIdle
    /\ GroupIdle

NextMain ==
    \/ MainStart
    \/ CallLoadTemplate
    \/ ReadLine
    \/ Return
    \/ PropagateLoadError
    \/ MainNormalize
    \/ CallGroupsGrid
    \/ PlaceGroup
    \/ NextRow
    \/ Break
    \/ ExtendGroups
    \/ ExtendText
    \/ WriteOutput

SpecMain == InitMain /\ [][NextMain]_vars

InitFig ==
    FigInit /\ NormIdle /\ LineIdle /\ LoadIdle /\ FrameIdle /\ DigitIdle /\ GridIdle /\ MainIdle
    /\ GroupIdle

NextFig == BuildMinifig

SpecFig == InitFig /\ [][NextFig]_vars

InitGroup ==
    GroupInit /\ NormIdle /\ LineIdle /\ LoadIdle /\ FrameIdle /\ DigitIdle /\ GridIdle
    /\ MainIdle /\ FigIdle

NextGroup ==
    \/ CallCenteredDigit
    \/ PlaceFigure
    \/ SkipFigure
    \/ NextFigureRow
    \/ CallGroupFrame

SpecGroup == InitGroup /\ [][NextGroup]_vars

(***************************************************************************)
(* Claims about normalisation.                                             *)
(***************************************************************************)
RECURSIVE SumTo(_, _, _)
SumTo(ps, f(_), k) == IF k = 0 THEN 0 ELSE SumTo(ps, f, k - 1) + f(ps[k])

\* |mean| <= 1/2, the coordinates being in units of 2^-FracBits.
MeanWithinHalf(ps, f(_)) == 2 * Abs(SumTo(ps, f, Len(ps))) <= Len(ps) * One

WithinEps(v, t) == Abs(v - t * ScalarOne) < Epsilon

\* C1: normalize_template_inplace is idempotent: a second application to a
\* normalized template leaves every part's x, y, z and orientation scalars as
\* the first application left them.
C1_Idempotent == passes >= 2 => parts = once

\* C2: after normalize_template_inplace the mean of the parts' x and the mean
\* of their z are each 0 within rounding to the nearest whole unit (absolute
\* value at most 1/2), and each y is the loaded y rounded, never shifted.
C2_CentredAndYRounded ==
    passes >= 1 =>
        /\ MeanWithinHalf(parts, GetX)
        /\ MeanWithinHalf(parts, GetZ)
        /\ \A i \in 1..Len(parts) : parts[i].y = PyRound(loaded[i].y)

C2_Witness ==
    /\ passes = 1
    /\ Len(parts) = 3
    /\ SumTo(parts, GetX, 3) # 0
    /\ \E i \in 1..3 : parts[i].x # PyRound(loaded[i].x)
    /\ \E i \in 1..3 : parts[i].y # loaded[i].y

\* C3: the cleaning step maps every orientation scalar strictly within epsilon
\* of -1, 0 or 1 to exactly that integer and leaves every scalar at distance
\* epsilon or more from all three unchanged, for each of the nine scalars of
\* every part.
C3_CleanSnapsOrKeeps ==
    passes >= 1 =>
        \A i \in 1..Len(once) : \A k \in 1..9 :
            LET v == loaded[i].m[k]
                w == once[i].m[k]
            IN  /\ \A t \in {-1, 0, 1} : WithinEps(v, t) => w = t * ScalarOne
                /\ (\A t \in {-1, 0, 1} : ~WithinEps(v, t)) => w = v

C3_Witness ==
    /\ passes >= 1
    /\ \E i \in 1..Len(once) :
          /\ \E k \in 1..9 : loaded[i].m[k] = 999995 /\ once[i].m[k] = ScalarOne
          /\ \E k \in 1..9 : loaded[i].m[k] = -9 /\ once[i].m[k] = 0
          /\ \E k \in 1..9 : loaded[i].m[k] = -1000009 /\ once[i].m[k] = -ScalarOne
          /\ \E k \in 1..9 : loaded[i].m[k] = 10 /\ once[i].m[k] = 10

(***************************************************************************)
(* Claims about to_line, parse and load_template.                          *)
(***************************************************************************)
SameFields(p, q) ==
    /\ q.ok
    /\ q.color = p.color
    /\ q.x.v = p.x.v /\ q.y.v = p.y.v /\ q.z.v = p.z.v
    /\ \A k \in 1..9 : q.m[k].v = p.m[k].v
    /\ q.part_id = p.part_id

\* C8: for every part p of a normalized template, LDrawType1.parse(p.to_line())
\* has the same color, x, y, z, nine orientation scalars and part reference
\* as p, and to_line emits exactly 15 words in the order discriminator,
\* color, x, y, z, a..i, part reference.
C8_RoundTrip ==
    /\ line # <<>> =>
          LET ws == Split(line)
          IN  /\ Len(ws) = 15
              /\ ws[1] = <<"1">>
              /\ ws[2] = IntStr(obj.color)
              /\ ws[3] = PyStr(obj.x) /\ ws[4] = PyStr(obj.y) /\ ws[5] = PyStr(obj.z)
              /\ \A k \in 1..9 : ws[5 + k] = PyStr(obj.m[k])
              /\ ws[15] = obj.part_id
    /\ reparsed # NotCalled => SameFields(obj, reparsed)

\* A part with int coordinates and scalars that clean kept (in fixed and in
\* scientific notation) has been written and read back.
C8_Witness ==
    /\ reparsed # NotCalled
    /\ reparsed.ok
    /\ obj.x.t = "int"
    /\ obj.x.v < 0
    /\ \E k \in 1..9 : obj.m[k].t = "float" /\ obj.m[k].v = -1000010
    /\ \E k \in 1..9 : obj.m[k].t = "float" /\ obj.m[k].v = 707107
    /\ \E k \in 1..9 : obj.m[k].t = "float" /\ obj.m[k].v = -11

\* The lines of src that start with the type-1 discriminator and have fewer
\* than 14 fields after it.
ShortRecord(raw) ==
    LET ws == Split(raw)
    IN  Len(ws) >= 1 /\ ws[1] = <<"1">> /\ Len(ws) - 1 < 14

HasShortRecord == \E k \in 1..Len(src) : ShortRecord(src[k])

Finished == outcome \in {"returned", "raised"}

\* C9: load_template raises whenever the source contains a line starting with
\* the type-1 discriminator that has fewer than 14 fields after it, wherever
\* the line occurs, and then returns no template; a type-1 line with exactly
\* 14 fields is accepted.
C9_ShortRecordRaises ==
    /\ (Finished /\ HasShortRecord) => outcome = "raised"
    /\ \A k \in 1..Len(items) : items[k].ok

(***************************************************************************)
(* Claims about build_group_frame.                                         *)
(***************************************************************************)
\* C4: every segment decomposition used by build_group_frame sums exactly to
\* the span of the side it covers (the cursor ends a horizontal run 32 studs
\* after left, and a vertical run 30 - 2 = 28 studs after bottom + 1), and
\* every segment length is a key of the 1-wide plate catalog PLATES[1].
C4_SegmentsCoverSpan ==
    /\ (phase = "horizontal" /\ seg > Len(horizontal_segments))
          => cursor = Left + 2 * width
    /\ (phase = "vertical" /\ seg > Len(vertical_segments))
          => cursor = (Bottom + 2) + 2 * (height - 2)
    /\ phase # "KeyError"
    /\ \A k \in 1..Len(frame) : frame[k].length \in DOMAIN PLATES[1]

C4_Witness ==
    /\ phase = "returned"
    /\ Len(frame) = 12
    /\ cursor = Top

(***************************************************************************)
(* Claims about the glyph renderer.                                        *)
(***************************************************************************)
Supported(t) == Len(t) > 0 /\ \A i \in 1..Len(t) : t[i] \in DOMAIN DIGITS_5x7

\* C5: for every non-empty text of n supported characters and every gap
\* g >= 0, render_text_5x7 returns exactly 7 rows, each of width
\* 5*n + g*(n-1): the glyphs left to right in text order, g empty columns
\* between adjacent glyphs and none after the last.
C5_RenderWidth ==
    (matrix # NotCalled /\ Supported(text)) =>
        LET n == Len(text) IN
        /\ matrix.ok
        /\ Len(matrix.rows) = 7
        /\ \A r \in 1..7 :
              /\ Len(matrix.rows[r]) = 5 * n + gap * (n - 1)
              /\ \A i \in 1..n : \A c \in 1..5 :
                    matrix.rows[r][(i - 1) * (5 + gap) + c] = DIGITS_5x7[text[i]][r][c]
              /\ \A i \in 1..(n - 1) : \A c \in 1..gap :
                    matrix.rows[r][(i - 1) * (5 + gap) + 5 + c] = "."

\* "12" with gap 1 has been rendered: 11 columns, 7 rows.
C5_Witness ==
    /\ matrix # NotCalled
    /\ text = <<"1", "2">>
    /\ gap = 1
    /\ matrix.ok
    /\ Len(matrix.rows[1]) = 11

\* Glyph "1" has been placed centred at stud (0, 0).
OnePlacedAtOrigin ==
    /\ placed # NotCalled
    /\ text = <<"1">>
    /\ digit_center = <<0, 0>>

\* The positions, in LDU, of the cells of glyph "1" when bitmap column c and
\* row r are placed at X = c - 2 + off/2 and Z = (6 - r) - 3 + off/2 studs.
OneCells(off) ==
    { <<studs(2 * (c - 2) + off), studs(2 * ((6 - r) - 3) + off)>> :
        <<r, c>> \in {rc \in (0..6) \X (0..4) :
                         DIGITS_5x7["1"][rc[1] + 1][rc[2] + 1] = "#"} }

PlacedPositions == {<<placed.lines[k].x, placed.lines[k].z>> : k \in 1..Len(placed.lines)}

C7_TenGroupsLastCentred ==
    (grid_pc = "returned" /\ grid_cols = 3 /\ grid_rows >= 4) =>
        /\ Len(groups) = 10
        /\ \A k \in 1..10 :
              /\ groups[k].digit = IntStr(k)
              /\ groups[k].center_z = CenterZ(groups[k].r, grid_rows)
        /\ \A k \in 1..9 :
              /\ groups[k].r = (k - 1) \div 3
              /\ groups[k].center_x = ((k - 1) % 3) * studs_per_plate
        /\ groups[10].r = 3
        /\ groups[10].center_x = 1 * studs_per_plate

C7_Witness ==
    /\ grid_pc = "returned"
    /\ grid_cols = 3
    /\ grid_rows = 4
    /\ Len(groups) = 10
    /\ groups[10].c = 0

\* main has raised: an exception of one of its steps has left it.
MainRaised == pc = "aborted"

AllSections == <<"header", "baseplates", "groups", "SOPHIE", "LAURENT">>

\* C10: the output file is written by one write that happens only after
\* template loading, normalization and every layout builder have returned;
\* in every execution in which one of those steps raises, the output file is
\* never written.
C10_AllOrNothing ==
    /\ [](output.written =>
            /\ pc = "done"
            /\ error = "none"
            /\ outcome = "returned"
            /\ passes = 1
            /\ grid_pc = "returned"
            /\ lines = AllSections
            /\ output.content = lines)
    /\ [][(MainRaised \/ outcome = "raised") => ~output'.written]_vars
    /\ [][output.written => output' = output]_vars

C10_Witness ==
    /\ output.written
    /\ Len(parts) = 2
    /\ Len(groups) = 10

(***************************************************************************)
(* Claims about build_minifig.                                             *)
(***************************************************************************)
\* C11: build_minifig given a template with zero placements fails with the
\* dedicated empty-assembly error and produces no placement records.
C11_EmptyRaisesDedicatedError ==
    (out # NotCalled /\ Len(template) = 0) =>
        /\ ~out.ok
        /\ out.err \in {"EmptyAssemblyError", "ValueError"}

\* C12: placement never mutates its input: after any number of build_minifig
\* calls, with any target, every part of the template has the color, x, y,
\* z, orientation scalars and part reference it had before the call, and the
\* template has the same parts in the same order.
C12_TemplateNotMutated == [][template' = template]_vars

\* Two calls have been made on a normalized template whose centroid is not 0.
C12_Witness ==
    /\ calls = 2
    /\ Len(template) = 2
    /\ out.ok
    /\ \E t \in LoadedFigTemplates : template = normalize_template_inplace(t)
    /\ Centroid(template, GetX) # 0

\* C14: for every non-empty template and every target, build_minifig emits
\* one record per part, in template order, color and part reference kept,
\* at position (-(z - cz) + 20*stud_x, y + baseplate_origin_y - 30,
\* (x - cx) + 20*stud_z), which is R applied to (x - cx, y, z - cz) plus the
\* translation, and with orientation R*M = (-g, -h, -i, d, e, f, a, b, c).
C14_RotatedAndTranslated ==
    (out # NotCalled /\ Len(template) > 0) =>
        /\ out.ok
        /\ Len(out.lines) = Len(template)
        /\ LET cx == FDivInt(PySum([i \in 1..Len(template) |-> template[i].x],
                                   Len(template)), Len(template))
               cz == FDivInt(PySum([i \in 1..Len(template) |-> template[i].z],
                                   Len(template)), Len(template))
           IN  \A k \in 1..Len(template) :
                 LET p == template[k]
                     q == out.lines[k]
                 IN  /\ q.color = p.color
                     /\ q.part_id = p.part_id
                     /\ q.x = FAdd(-FSub(p.z, cz), 20 * stud_target[1] * One)
                     /\ q.y = FAdd(p.y, (4 - 30) * One)
                     /\ q.z = FAdd(FSub(p.x, cx), 20 * stud_target[2] * One)
                     /\ q.m = <<-p.m[7], -p.m[8], -p.m[9],
                                p.m[4], p.m[5], p.m[6],
                                p.m[1], p.m[2], p.m[3]>>

\* A tilted part of a two-part template has been placed away from the origin.
C14_Witness ==
    /\ out # NotCalled
    /\ out.ok
    /\ Len(template) = 2
    /\ stud_target = <<20, 8>>
    /\ template[1].x # template[2].x
    /\ template[2].m = MatTilted
    /\ out.lines[2].m[1] = -707107

(***************************************************************************)
(* Claims about the centres build_groups_grid gives the groups.            *)
(***************************************************************************)
\* The column a group is assigned: the loop's, and cols div 2 for group 10.
AssignedCol(k) == IF k = 10 THEN grid_cols \div 2 ELSE groups[k].c

\* The baseplates of build_baseplate_grid(cols, rows) centred where group k is.
BaseplatesUnder(k) ==
    LET plates == build_baseplate_grid(grid_cols, grid_rows, 1)
    IN  {b \in 1..Len(plates) :
            /\ plates[b].x = studs(2 * groups[k].center_x)
            /\ plates[b].z = studs(2 * groups[k].center_z)}

BaseplateAt(col, row) == row * grid_cols + col + 1

\* C13 as stated: the group assigned to grid row r and column c is centred at
\* stud x = c*32, z = (rows - 1 - r)*32, the centre of the baseplate that
\* build_baseplate_grid(cols, rows) places at column c and row rows - 1 - r.
C13_AsStated ==
    \A k \in 1..Len(groups) :
        /\ groups[k].center_x = AssignedCol(k) * 32
        /\ groups[k].center_z = (grid_rows - 1 - groups[k].r) * 32
        /\ BaseplatesUnder(k) = {BaseplateAt(AssignedCol(k), grid_rows - 1 - groups[k].r)}

\* C13 amended: the row index is inverted and lowered by row_offset = 1: the
\* group assigned to grid row r and column c is centred at stud x = c*32,
\* z = (rows - 2 - r)*32; for r <= rows - 2 that is the centre of the
\* baseplate at column c and row rows - 2 - r, and for r = rows - 1 it is
\* z = -32, where build_baseplate_grid places no baseplate.
C13_RowInvertedWithOffset ==
    \A k \in 1..Len(groups) :
        LET row == groups[k].r IN
        /\ groups[k].center_x = AssignedCol(k) * 32
        /\ groups[k].center_z = (grid_rows - 2 - row) * 32
        /\ row <= grid_rows - 2 =>
              BaseplatesUnder(k) = {BaseplateAt(AssignedCol(k), grid_rows - 2 - row)}
        /\ row = grid_rows - 1 =>
              (groups[k].center_z = -32 /\ BaseplatesUnder(k) = {})

\* The grid of main (3 x 5) is complete: rows 0..3 hold groups.
C13_Witness ==
    /\ grid_pc = "returned"
    /\ grid_cols = 3
    /\ grid_rows = 5
    /\ Len(groups) = 10
    /\ groups[1].center_z = 96
    /\ groups[10].center_z = 0

Min(a, b) == IF a < b THEN a ELSE b

\* C18: for every cols >= 1 and rows >= 1, build_groups_grid places
\* min(10, cols*rows) groups and no two of them are given the same centre
\* (x, z), the rule that forces group 10 to column cols // 2 included.
C18_NoTwoGroupsShareCentre ==
    /\ grid_pc = "returned" => Len(groups) = Min(10, grid_cols * grid_rows)
    /\ \A i, j \in 1..Len(groups) :
          i # j => <<groups[i].center_x, groups[i].center_z>>
                   # <<groups[j].center_x, groups[j].center_z>>

(***************************************************************************)
(* Claims about the cells the frame covers.                                *)
(***************************************************************************)
\* The stud cells, in half studs, that a plate of length L centred at c
\* covers: the L cells from c - (L-1)/2 to c + (L-1)/2 along its run, which
\* is X for build_plate and Z for build_plate_rotated.
PlateCells(plate) ==
    LET hx == (2 * plate.x) \div STUD
        hz == (2 * plate.z) \div STUD
        L  == plate.length
    IN  IF plate.m = Identity
        THEN {<<hx - (L - 1) + 2 * j, hz>> : j \in 0..(L - 1)}
        ELSE {<<hx, hz - (L - 1) + 2 * j>> : j \in 0..(L - 1)}

\* The cells of the 32 x 30 rectangle, and those of its one-stud border.
RectCells ==
    {<<Left + 2 * i, Bottom + 2 * j>> : i \in 0..(width - 1), j \in 0..(height - 1)}

BorderCells ==
    {cell \in RectCells : cell[1] \in {Left, Right} \/ cell[2] \in {Bottom, Top}}

Corners == {<<Left, Bottom>>, <<Left, Top>>, <<Right, Bottom>>, <<Right, Top>>}

\* C15: the frame tiles its one-stud-thick perimeter with no gap and no
\* overlap: no two plates cover the same cell and no plate covers a cell
\* off the border at any time, and when build_group_frame returns every
\* border cell, the four corners included, is covered; the horizontal runs
\* cover the corners, the vertical runs start one stud inset and end one
\* stud before the opposite corner.
C15_FrameTilesBorder ==
    /\ \A i, j \in 1..Len(frame) :
          i # j => PlateCells(frame[i]) \cap PlateCells(frame[j]) = {}
    /\ \A i \in 1..Len(frame) : PlateCells(frame[i]) \subseteq BorderCells
    /\ \A i \in 1..Len(frame) :
          frame[i].m # Identity =>
             \A cell \in PlateCells(frame[i]) : cell[2] \in (Bottom + 2)..(Top - 2)
    /\ phase = "returned" =>
          /\ UNION {PlateCells(frame[i]) : i \in 1..Len(frame)} = BorderCells
          /\ \A corner \in Corners :
                \E i \in 1..Len(frame) :
                    frame[i].m = Identity /\ corner \in PlateCells(frame[i])

\* A frame off the origin is complete: 6 horizontal and 6 vertical plates.
C15_Witness ==
    /\ phase = "returned"
    /\ center = <<32, 96>>
    /\ Cardinality({i \in 1..Len(frame) : frame[i].m = Identity}) = 6
    /\ Cardinality({i \in 1..Len(frame) : frame[i].m = RotatedY90}) = 6

(***************************************************************************)
(* Claims about the cells build_centered_digit places.                     *)
(***************************************************************************)
\* The filled cells <<r, c>> (from 0) of the bitmap of text: glyph i (from 1)
\* has its 5 columns from column 6*(i-1) on, one empty column between glyphs.
FilledCells ==
    UNION {{<<rc[1], 6 * (i - 1) + rc[2]>> :
              rc \in {x \in (0..6) \X (0..4) :
                         DIGITS_5x7[text[i]][x[1] + 1][x[2] + 1] = "#"}} :
           i \in 1..Len(text)}

\* C16: for every supported text, build_centered_digit emits exactly one
\* 1x1-plate record per filled bitmap cell and none for empty cells, at
\* pairwise distinct positions; a cell in bitmap row r is placed at Z offset
\* (height-1-r) from the origin (row 0 has the largest Z) and column c at X
\* offset c; all records share the vertical position baseplate_top_origin_y
\* and the caller-supplied color.
C16_OnePlatePerFilledCell ==
    (placed # NotCalled /\ Supported(text)) =>
        LET h == 7
            w == 5 * Len(text) + (Len(text) - 1)
            ox == 2 * digit_center[1] - (w - 1) + 1
            oz == 2 * digit_center[2] - (h - 1) + 1
            at(rc) == <<10 * (ox + 2 * rc[2]), 10 * (oz + 2 * (h - 1 - rc[1]))>>
            n == Len(placed.lines)
        IN  /\ placed.ok
            /\ n = Cardinality(FilledCells)
            /\ {<<placed.lines[k].x, placed.lines[k].z>> : k \in 1..n}
                   = {at(rc) : rc \in FilledCells}
            /\ \A i, j \in 1..n :
                  i # j => <<placed.lines[i].x, placed.lines[i].z>>
                           # <<placed.lines[j].x, placed.lines[j].z>>
            /\ \A k \in 1..n :
                  /\ placed.lines[k].y = -4
                  /\ placed.lines[k].color = digit_color
                  /\ placed.lines[k].part = "3024.dat"
            /\ \A rc \in FilledCells :
                  rc[1] = 0 => \A k \in 1..n : placed.lines[k].z <= at(rc)[2]

\* The two-glyph text "10" has been placed off the origin, in red.
C16_Witness ==
    /\ placed # NotCalled
    /\ placed.ok
    /\ text = <<"1", "0">>
    /\ digit_center = <<32, 96>>
    /\ digit_color = 4
    /\ Len(placed.lines) > 20

(***************************************************************************)
(* Claims about build_group.                                               *)
(***************************************************************************)
\* The offsets from the group centre of the build_minifig calls made so far.
FigureOffsets ==
    {<<group_calls[k].x - group_center[1], group_calls[k].z - group_center[2]>> :
        k \in {i \in 1..Len(group_calls) : group_calls[i].fn = "build_minifig"}}

FigureCount == Cardinality({i \in 1..Len(group_calls) : group_calls[i].fn = "build_minifig"})

\* C17: build_group places exactly 10 template instances, one at offset
\* ((col - 1.5)*8, (row - 1)*8) from the group centre for every (row, col) in
\* 0..2 x 0..3 except (1,1) and (1,2); the 10 positions are pairwise
\* distinct, symmetric about the centre, strictly inside the 32 x 30 frame
\* built around the same centre, and depend only on the centre.
C17_TenFiguresAroundCentre ==
    group_pc = "returned" =>
        /\ FigureCount = 10
        /\ Cardinality(FigureOffsets) = 10
        /\ FigureOffsets =
              {<<8 * col - 12, 8 * row - 8>> : row \in 0..2, col \in 0..3}
                 \ {<<-4, 0>>, <<4, 0>>}
        /\ \A o \in FigureOffsets : <<-o[1], -o[2]>> \in FigureOffsets
        /\ \A o \in FigureOffsets : 2 * Abs(o[1]) < 32 - 2 /\ 2 * Abs(o[2]) < 30 - 2
        /\ group_calls[1] = [fn |-> "build_centered_digit",
                             x |-> group_center[1], z |-> group_center[2]]
        /\ group_calls[Len(group_calls)] = [fn |-> "build_group_frame",
                                            x |-> group_center[1], z |-> group_center[2]]

\* The group centred at (32, 64) is complete: digit, 10 minifigs, frame.
C17_Witness ==
    /\ group_pc = "returned"
    /\ group_center = <<32, 64>>
    /\ Len(group_calls) = 12
    /\ \E k \in 1..Len(group_calls) :
          group_calls[k] = [fn |-> "build_minifig", x |-> 20, z |-> 72]

=============================================================================
